---- MODULE Spec2Model ----
(***************************************************************************)
(* The order-simulation client of brokers-mcp: SimulationTradingClient     *)
(* over the "orders" table (simulation_trading_client.py,                  *)
(* simulation_trading_db.py).                                              *)
(*                                                                         *)
(* Python None is the empty tuple; an Optional value x is the 1-tuple <<x>>*)
(* so that None, 0 and a price stay three different things ("x or 0",      *)
(* "if x", "x is not None" tell them apart in the source).                 *)
(*                                                                         *)
(* Three specifications share the module: Spec (the client's calls, one    *)
(* at a time), RaceSpec (two replace_order_by_id coroutines interleaved at *)
(* their awaits) and BarsSpec (one get_alpaca_bars call of market_data.py  *)
(* with its retries).                                                      *)
(***************************************************************************)
EXTENDS Integers, Sequences, FiniteSets, TLC

VARIABLES
    orders,    \* the "orders" table: primary key id -> committed row
    clock,     \* the time datetime.utcnow() / now() reads; one tick per call
    result,    \* what the last call returned or raised
    history,   \* the calls that committed a change, oldest first
    tasks,     \* RaceSpec: the replace_order_by_id coroutines in flight
    bars       \* BarsSpec: the get_alpaca_bars call in progress

vars == <<orders, clock, result, history>>

allvars == <<orders, clock, result, history, tasks, bars>>

\* ---------------------------------------------------------------- bounds
\* Calls made in one behaviour (so also the rows the table can hold).
MaxCalls == 4

\* In-session rows the market-data source returns for one request.
MaxRows == 10

\* Rows before the open, and rows after the close, in what it returns.
MaxOutside == 1

\* Recursive calls of get_alpaca_bars followed in one behaviour.
MaxRetries == 2

\* ---------------------------------------------------------------- values
None == <<>>
Some(x) == <<x>>
Val(o) == o[1]

\* Python truthiness of an Optional number: None and 0 are falsy.
Truthy(o) == o # None /\ Val(o) # 0

\* alpaca.trading.enums.OrderStatus values the client writes or tests.
OrderStatus_NEW == "new"
OrderStatus_ACCEPTED == "accepted"
OrderStatus_FILLED == "filled"
OrderStatus_CANCELED == "canceled"

\* Primary keys uuid4 can produce; one more than the rows a behaviour can
\* create, so some id is always absent from the table.
Uuids == 1 .. (MaxCalls + 1)

Symbols == {"AAPL", "MSFT"}

\* An OrderRequest as submit_order receives it.
OrderRequest(symbol, qty, side, type, tif, limit_price, take_profit, stop_loss, order_class) ==
    [symbol |-> symbol, qty |-> qty, side |-> side, type |-> type,
     time_in_force |-> tif, limit_price |-> limit_price,
     take_profit |-> take_profit, stop_loss |-> stop_loss,
     order_class |-> order_class]

\* The order specifications callers submit: limit orders with a price,
\* with and without bracket legs and quantity; a market order; a limit
\* order priced 0; a stop-limit order that carries a limit price.
SubmitRequests ==
    { OrderRequest("AAPL", Some(2), "buy", "limit", "day", Some(10), Some(12), Some(8), Some("bracket")),
      OrderRequest("MSFT", None, "sell", "limit", "gtc", Some(20), None, None, None),
      OrderRequest("AAPL", Some(2), "buy", "market", "day", None, None, None, None),
      OrderRequest("AAPL", Some(0), "buy", "limit", "day", Some(0), None, None, None),
      OrderRequest("MSFT", Some(1), "sell", "stop_limit", "day", Some(20), None, None, None) }

\* A ReplaceOrderRequest.
ReplaceOrderRequest(qty, tif, limit_price, stop_price) ==
    [qty |-> qty, time_in_force |-> tif, limit_price |-> limit_price,
     stop_price |-> stop_price]

\* The replace requests callers send: nothing overridden, everything
\* overridden, and a limit price of 0.
ReplaceRequests ==
    { ReplaceOrderRequest(None, None, None, None),
      ReplaceOrderRequest(Some(5), Some("gtc"), Some(11), Some(9)),
      ReplaceOrderRequest(None, None, Some(0), None) }

\* close_options as close_position receives it: None (the default
\* argument), or a ClosePositionRequest whose percentage is absent or a
\* string.
CloseOptions ==
    { None,
      Some([percentage |-> None]),
      Some([percentage |-> Some("50")]),
      Some([percentage |-> Some("100.0")]),
      Some([percentage |-> Some("100")]) }

\* ---------------------------------------------------------------- table
\* Order: the NOT NULL columns a row must fill for INSERT/UPDATE to pass
\* (instrument, quantity, order_type, order_class, time_in_force and
\* status are never None in a row the client builds).
NotNullColumns(row) ==
    /\ row.side # None
    /\ row.entry_price # None

\* uuid4, the default of Order.id: a key no row of the table has (the
\* least one; which fresh key is drawn is immaterial to the client).
uuid4 ==
    CHOOSE id \in Uuids \ DOMAIN orders :
        \A other \in Uuids \ DOMAIN orders : id <= other

\* A commit that keeps the rows that pass when another row is refused.
SessionCommit_partial(pending) ==
    IF \A id \in DOMAIN pending : NotNullColumns(pending[id])
    THEN [ok |-> TRUE, table |-> pending]
    ELSE [ok |-> FALSE,
          table |-> [id \in {i \in DOMAIN pending : NotNullColumns(pending[i])}
                        |-> pending[id]]]

\* session.commit(): flush the session's pending table; every row must
\* satisfy the column constraints or the transaction is rolled back.
SessionCommit(pending) ==
    IF \A id \in DOMAIN pending : NotNullColumns(pending[id])
    THEN [ok |-> TRUE, table |-> pending]
    ELSE [ok |-> FALSE, table |-> orders]

\* The table with row r stored under id.
Put(table, id, r) ==
    [i \in DOMAIN table \cup {id} |-> IF i = id THEN r ELSE table[i]]

\* ---------------------------------------------------------------- results
Returned(op, id, status, qty, limit_price, stop_price) ==
    [op |-> op, error |-> "", id |-> id, status |-> status, qty |-> qty,
     limit_price |-> limit_price, stop_price |-> stop_price]

Raised(op, error, id) ==
    [op |-> op, error |-> error, id |-> id, status |-> "", qty |-> None,
     limit_price |-> None, stop_price |-> None]

Committed(op, id, new_id) == [op |-> op, id |-> id, new_id |-> new_id]

\* ---------------------------------------------------------------- client
\* _create_order: the Order built from a request (before the commit).
CreateOrderRow(order_data, id) ==
    [id |-> id,
     instrument |-> order_data.symbol,
     quantity |-> IF Truthy(order_data.qty) THEN Val(order_data.qty) ELSE 0,
     side |-> Some(order_data.side),
     entry_price |-> IF order_data.type = "limit" /\ Truthy(order_data.limit_price)
                     THEN order_data.limit_price ELSE None,
     take_profit_price |-> order_data.take_profit,
     stop_loss_price |-> order_data.stop_loss,
     order_type |-> order_data.type,
     order_class |-> IF order_data.order_class # None
                     THEN Val(order_data.order_class) ELSE "simple",
     time_in_force |-> order_data.time_in_force,
     status |-> OrderStatus_NEW,
     created_timestamp |-> clock,
     updated_timestamp |-> clock]

\* A lookup whose WHERE clause is lost: some row comes back for any id.
GetOrderById_unfiltered(order_id) ==
    IF order_id \in DOMAIN orders THEN Some(orders[order_id])
    ELSE IF DOMAIN orders # {} THEN Some(orders[CHOOSE id \in DOMAIN orders : TRUE])
    ELSE None

\* _get_order_by_id: the row, or None when no row has the id.
GetOrderById(order_id) ==
    IF order_id \in DOMAIN orders THEN Some(orders[order_id]) ELSE None

\* A replacement that carries the original's stop loss forward when the
\* request names none, as it does the take profit.
PrepareNewOrderRequest_inherits_stop(existing_order, new_order_data) ==
    OrderRequest(
        existing_order.instrument,
        IF new_order_data.qty # None THEN new_order_data.qty
        ELSE Some(existing_order.quantity),
        Val(existing_order.side),
        existing_order.order_type,
        IF new_order_data.time_in_force # None THEN Val(new_order_data.time_in_force)
        ELSE existing_order.time_in_force,
        IF new_order_data.limit_price # None THEN new_order_data.limit_price
        ELSE existing_order.entry_price,
        IF Truthy(existing_order.take_profit_price)
        THEN existing_order.take_profit_price ELSE None,
        IF Truthy(new_order_data.stop_price) THEN new_order_data.stop_price
        ELSE existing_order.stop_loss_price,
        Some(existing_order.order_class))

\* _prepare_new_order_request: the LimitOrderRequest of a replacement.
PrepareNewOrderRequest(existing_order, new_order_data) ==
    OrderRequest(
        existing_order.instrument,
        IF new_order_data.qty # None THEN new_order_data.qty
        ELSE Some(existing_order.quantity),
        Val(existing_order.side),
        existing_order.order_type,
        IF new_order_data.time_in_force # None THEN Val(new_order_data.time_in_force)
        ELSE existing_order.time_in_force,
        IF new_order_data.limit_price # None THEN new_order_data.limit_price
        ELSE existing_order.entry_price,
        IF Truthy(existing_order.take_profit_price)
        THEN existing_order.take_profit_price ELSE None,
        IF Truthy(new_order_data.stop_price) THEN new_order_data.stop_price ELSE None,
        Some(existing_order.order_class))

\* The status test compared with the enum's name, not its value.
AlreadyCanceled_by_name(order) == order.status = "CANCELED"

\* The test replace_order_by_id makes before it changes anything.
AlreadyCanceled(order) == order.status = OrderStatus_CANCELED

\* The status and timestamp cancel and replace assign to the fetched row.
MarkCanceled(order) ==
    [order EXCEPT !.status = OrderStatus_CANCELED, !.updated_timestamp = clock]

\* A replace that turns the original row into the replacement.
ReplaceWrites_in_place(order_id, existing_order, new_order) ==
    Put(orders, order_id, [new_order EXCEPT !.id = order_id])

\* A replace that adds the new row and leaves the original as it was.
ReplaceWrites_no_cancel(order_id, existing_order, new_order) ==
    Put(orders, new_order.id, new_order)

\* A replace that deletes the original row instead of marking it.
ReplaceWrites_delete(order_id, existing_order, new_order) ==
    [id \in (DOMAIN orders \ {order_id}) \cup {new_order.id} |->
        IF id = new_order.id THEN new_order ELSE orders[id]]

\* What a replace hands to the commit: the original as marked, and the
\* new row under its own key.
ReplaceWrites(order_id, existing_order, new_order) ==
    Put(Put(orders, order_id, existing_order), new_order.id, new_order)

\* submit_order: _create_order in a session of its own.
submit_order(order_data) ==
    /\ clock < MaxCalls
    /\ LET id == uuid4
           new_order == CreateOrderRow(order_data, id)
           done == SessionCommit(Put(orders, id, new_order))
       IN  /\ orders' = done.table
           /\ result' = IF done.ok
                        THEN Returned("submit_order", id, new_order.status, None, None, None)
                        ELSE Raised("submit_order", "IntegrityError", 0)
           /\ history' = IF done.ok
                         THEN Append(history, Committed("submit_order", id, id))
                         ELSE history
    /\ clock' = clock + 1

\* get_order_by_id: the status and id of the row, or the not-found error.
get_order_by_id(order_id) ==
    /\ clock < MaxCalls
    /\ LET order == GetOrderById(order_id)
       IN  result' = IF order = None
                     THEN Raised("get_order_by_id", "NotFound", order_id)
                     ELSE Returned("get_order_by_id", Val(order).id, Val(order).status,
                                   None, None, None)
    /\ clock' = clock + 1
    /\ UNCHANGED <<orders, history>>

\* A cancel that refuses an order already CANCELED, as replace does.
cancel_order_by_id_guarded(order_id) ==
    /\ clock < MaxCalls
    /\ LET order == GetOrderById(order_id)
       IN  IF order = None
           THEN /\ result' = Raised("cancel_order_by_id", "NotFound", order_id)
                /\ UNCHANGED <<orders, history>>
           ELSE IF AlreadyCanceled(Val(order))
           THEN /\ result' = Raised("cancel_order_by_id", "AlreadyCanceled", order_id)
                /\ UNCHANGED <<orders, history>>
           ELSE LET canceled == MarkCanceled(Val(order))
                IN  /\ orders' = Put(orders, order_id, canceled)
                    /\ result' = Returned("cancel_order_by_id", canceled.id,
                                          canceled.status, None, None, None)
                    /\ history' = Append(history,
                                         Committed("cancel_order_by_id", order_id, order_id))
    /\ clock' = clock + 1

\* cancel_order_by_id: no test of the current status.
cancel_order_by_id(order_id) ==
    /\ clock < MaxCalls
    /\ LET order == GetOrderById(order_id)
       IN  IF order = None
           THEN /\ result' = Raised("cancel_order_by_id", "NotFound", order_id)
                /\ UNCHANGED <<orders, history>>
           ELSE LET canceled == MarkCanceled(Val(order))
                    done == SessionCommit(Put(orders, order_id, canceled))
                IN  /\ orders' = done.table
                    /\ result' = IF done.ok
                                 THEN Returned("cancel_order_by_id", canceled.id,
                                               canceled.status, None, None, None)
                                 ELSE Raised("cancel_order_by_id", "IntegrityError", order_id)
                    /\ history' = IF done.ok
                                  THEN Append(history,
                                              Committed("cancel_order_by_id", order_id, order_id))
                                  ELSE history
    /\ clock' = clock + 1

\* replace_order_by_id: the original is marked canceled and the new row
\* added in the same session; _create_order's commit writes both or, when
\* the new row breaks a constraint, neither.
replace_order_by_id(order_id, new_order_data) ==
    /\ clock < MaxCalls
    /\ LET found == GetOrderById(order_id)
       IN  IF found = None
           THEN /\ result' = Raised("replace_order_by_id", "NotFound", order_id)
                /\ UNCHANGED <<orders, history>>
           ELSE IF AlreadyCanceled(Val(found))
           THEN /\ result' = Raised("replace_order_by_id", "AlreadyCanceled", order_id)
                /\ UNCHANGED <<orders, history>>
           ELSE LET existing_order == MarkCanceled(Val(found))
                    new_order_request == PrepareNewOrderRequest(existing_order, new_order_data)
                    id == uuid4
                    new_order == CreateOrderRow(new_order_request, id)
                    done == SessionCommit(ReplaceWrites(order_id, existing_order, new_order))
                IN  /\ orders' = done.table
                    /\ result' =
                         IF done.ok
                         THEN Returned("replace_order_by_id", id, new_order.status,
                                       Some(new_order.quantity),
                                       IF Truthy(new_order.entry_price)
                                       THEN new_order.entry_price ELSE None,
                                       IF Truthy(new_order.stop_loss_price)
                                       THEN new_order.stop_loss_price ELSE None)
                         ELSE Raised("replace_order_by_id", "IntegrityError", order_id)
                    /\ history' = IF done.ok
                                  THEN Append(history,
                                              Committed("replace_order_by_id", order_id, id))
                                  ELSE history
    /\ clock' = clock + 1

\* A bulk UPDATE whose WHERE clause lost the status test.
CloseUpdate_any_status(table, symbol) ==
    [id \in DOMAIN table |->
        IF table[id].instrument = symbol
        THEN [table[id] EXCEPT !.status = OrderStatus_FILLED,
                               !.updated_timestamp = clock]
        ELSE table[id]]

\* A bulk UPDATE over every row of the instrument that is not yet FILLED.
CloseUpdate_not_filled(table, symbol) ==
    [id \in DOMAIN table |->
        IF table[id].status # OrderStatus_FILLED /\ table[id].instrument = symbol
        THEN [table[id] EXCEPT !.status = OrderStatus_FILLED,
                               !.updated_timestamp = clock]
        ELSE table[id]]

\* The bulk UPDATE of close_position: every NEW row of the instrument
\* becomes FILLED and is stamped; every other row is left as it is.
CloseUpdate(table, symbol) ==
    [id \in DOMAIN table |->
        IF table[id].status = OrderStatus_NEW /\ table[id].instrument = symbol
        THEN [table[id] EXCEPT !.status = OrderStatus_FILLED,
                               !.updated_timestamp = clock]
        ELSE table[id]]

\* A percentage test that accepts whatever starts with "100".
FullClose_prefix(close_options) ==
    /\ Val(close_options).percentage # None
    /\ Val(close_options).percentage \in {Some("100"), Some("100.0")}

\* The test close_position makes of close_options.percentage.
FullClose(close_options) ==
    /\ Val(close_options).percentage # None
    /\ Val(close_options).percentage = Some("100")

\* close_position: only a 100% close reaches the table.
close_position(symbol, close_options) ==
    /\ clock < MaxCalls
    /\ IF close_options = None
       THEN /\ result' = Raised("close_position", "AttributeError", 0)
            /\ UNCHANGED <<orders, history>>
       ELSE IF ~FullClose(close_options)
       THEN /\ result' = Raised("close_position", "PartialClose", 0)
            /\ UNCHANGED <<orders, history>>
       ELSE LET done == SessionCommit(CloseUpdate(orders, symbol))
            IN  /\ orders' = done.table
                /\ result' = IF done.ok
                             THEN Returned("close_position", 0, "", None, None, None)
                             ELSE Raised("close_position", "IntegrityError", 0)
                /\ history' = IF done.ok
                              THEN Append(history, Committed("close_position", 0, 0))
                              ELSE history
    /\ clock' = clock + 1

\* No coroutine in flight, no bar request in progress.
NoTasks == << >>
NoBars == [pc |-> "idle"]

\* The database after create_tables: no rows.
Init ==
    /\ orders = << >>
    /\ clock = 0
    /\ result = Raised("", "", 0)
    /\ history = << >>
    /\ tasks = NoTasks
    /\ bars = NoBars

Next ==
    \/ \E order_data \in SubmitRequests :
          submit_order(order_data) /\ UNCHANGED <<tasks, bars>>
    \/ \E order_id \in Uuids :
          get_order_by_id(order_id) /\ UNCHANGED <<tasks, bars>>
    \/ \E order_id \in Uuids :
          cancel_order_by_id(order_id) /\ UNCHANGED <<tasks, bars>>
    \/ \E order_id \in Uuids, new_order_data \in ReplaceRequests :
          replace_order_by_id(order_id, new_order_data) /\ UNCHANGED <<tasks, bars>>
    \/ \E symbol \in Symbols, close_options \in CloseOptions :
          close_position(symbol, close_options) /\ UNCHANGED <<tasks, bars>>

Spec == Init /\ [][Next]_allvars

\* ---------------------------------------------------------------- race
\* Two replace_order_by_id coroutines of one client. Each opens its own
\* session; a coroutine yields at "await self._get_order_by_id" and at
\* "await session.commit()", so another may run between its read and its
\* commit. The engine is created with the store's default isolation and
\* Order has no version column: a commit writes over whatever is there.
Tasks == {1, 2}

\* A coroutine about to run replace_order_by_id(order_id, new_order_data).
ReplaceTask(order_id, new_order_data) ==
    [pc |-> "read", order_id |-> order_id, new_order_data |-> new_order_data,
     existing |-> None, result |-> Raised("", "", 0)]

\* The table after one submit_order of a limit order has committed.
RaceInit ==
    /\ clock = 1
    /\ result = Raised("", "", 0)
    /\ \E order_data \in SubmitRequests :
         LET row == [CreateOrderRow(order_data, 1) EXCEPT !.created_timestamp = 0,
                                                          !.updated_timestamp = 0]
         IN  /\ NotNullColumns(row)
             /\ orders = Put(<< >>, 1, row)
    /\ history = << Committed("submit_order", 1, 1) >>
    /\ tasks \in [Tasks -> {ReplaceTask(order_id, new_order_data) :
                                order_id \in {1, 2}, new_order_data \in ReplaceRequests}]
    /\ bars = NoBars

\* replace_order_by_id up to its first write: the SELECT and the two
\* tests on what it returned.
ReplaceRead(t) ==
    /\ tasks[t].pc = "read"
    /\ LET found == GetOrderById(tasks[t].order_id)
       IN  tasks' = [tasks EXCEPT ![t] =
             IF found = None
             THEN [@ EXCEPT !.pc = "done",
                            !.result = Raised("replace_order_by_id", "NotFound",
                                              tasks[t].order_id)]
             ELSE IF AlreadyCanceled(Val(found))
             THEN [@ EXCEPT !.pc = "done", !.existing = found,
                            !.result = Raised("replace_order_by_id", "AlreadyCanceled",
                                              tasks[t].order_id)]
             ELSE [@ EXCEPT !.pc = "commit", !.existing = found]]
    /\ UNCHANGED <<orders, clock, result, history, bars>>

\* A commit that refuses to write over a row changed since it was read.
ReplaceCommit_versioned(t) ==
    /\ tasks[t].pc = "commit"
    /\ LET order_id == tasks[t].order_id
           existing_order == MarkCanceled(Val(tasks[t].existing))
           new_order_request ==
               PrepareNewOrderRequest(existing_order, tasks[t].new_order_data)
           id == uuid4
           new_order == CreateOrderRow(new_order_request, id)
           done == IF orders[order_id] = Val(tasks[t].existing)
                   THEN SessionCommit(ReplaceWrites(order_id, existing_order, new_order))
                   ELSE [ok |-> FALSE, table |-> orders]
       IN  /\ orders' = done.table
           /\ tasks' = [tasks EXCEPT ![t].pc = "done", ![t].result =
                 IF done.ok
                 THEN Returned("replace_order_by_id", id, new_order.status,
                               Some(new_order.quantity),
                               IF Truthy(new_order.entry_price)
                               THEN new_order.entry_price ELSE None,
                               IF Truthy(new_order.stop_loss_price)
                               THEN new_order.stop_loss_price ELSE None)
                 ELSE Raised("replace_order_by_id", "IntegrityError", order_id)]
           /\ history' = IF done.ok
                         THEN Append(history, Committed("replace_order_by_id", order_id, id))
                         ELSE history
    /\ clock' = clock + 1
    /\ UNCHANGED <<result, bars>>

\* replace_order_by_id from its first write to its return: the row read
\* is marked, the new row built from it, and both are committed.
ReplaceCommit(t) ==
    /\ tasks[t].pc = "commit"
    /\ LET order_id == tasks[t].order_id
           existing_order == MarkCanceled(Val(tasks[t].existing))
           new_order_request ==
               PrepareNewOrderRequest(existing_order, tasks[t].new_order_data)
           id == uuid4
           new_order == CreateOrderRow(new_order_request, id)
           done == SessionCommit(ReplaceWrites(order_id, existing_order, new_order))
       IN  /\ orders' = done.table
           /\ tasks' = [tasks EXCEPT ![t].pc = "done", ![t].result =
                 IF done.ok
                 THEN Returned("replace_order_by_id", id, new_order.status,
                               Some(new_order.quantity),
                               IF Truthy(new_order.entry_price)
                               THEN new_order.entry_price ELSE None,
                               IF Truthy(new_order.stop_loss_price)
                               THEN new_order.stop_loss_price ELSE None)
                 ELSE Raised("replace_order_by_id", "IntegrityError", order_id)]
           /\ history' = IF done.ok
                         THEN Append(history, Committed("replace_order_by_id", order_id, id))
                         ELSE history
    /\ clock' = clock + 1
    /\ UNCHANGED <<result, bars>>

RaceNext ==
    \/ \E t \in Tasks : ReplaceRead(t)
    \/ \E t \in Tasks : ReplaceCommit(t)

RaceSpec == RaceInit /\ [][RaceNext]_allvars

\* ---------------------------------------------------------------- bars
\* get_alpaca_bars of market_data.py. A bar row is its position in the
\* fetched frame and its US/Eastern timestamp (dayofweek 0 = Monday);
\* prices, volume, indicator columns and the csv rendering are left out.
Units == {"Minute", "Hour", "Daily", "Weekly", "Monthly", "Yearly", "HOUR"}

BarSizes == {1, 30, 59, 60, 90}

BarsBack == {0, 1, 2}

\* An indicators argument, as the warm-up period indicator_min_bars_back
\* gives for each indicator named in it; empty is the "" default.
Indicators == { << >>, <<2, 3>> }

\* str.upper on the unit names.
Upper(unit) ==
    CASE unit = "Minute" -> "MINUTE"
      [] unit = "Hour" -> "HOUR"
      [] unit = "Daily" -> "DAILY"
      [] unit = "Weekly" -> "WEEKLY"
      [] unit = "Monthly" -> "MONTHLY"
      [] unit = "Yearly" -> "YEARLY"
      [] OTHER -> unit

Value(v) == [error |-> "", value |-> v]
ValueError(message) == [error |-> message, value |-> 0]

\* get_timeframe without the division of long minute bars into hours.
get_timeframe_undivided(unit, bar_size) ==
    LET u == Upper(unit)
    IN  IF u = "MINUTE"
        THEN IF bar_size <= 59
             THEN Value([amount |-> bar_size, unit |-> "Minute"])
             ELSE Value([amount |-> bar_size, unit |-> "Hour"])
        ELSE IF u = "HOUR" THEN Value([amount |-> bar_size, unit |-> "Hour"])
        ELSE IF u = "DAILY" THEN Value([amount |-> bar_size, unit |-> "Day"])
        ELSE IF u = "WEEKLY" THEN Value([amount |-> bar_size, unit |-> "Week"])
        ELSE IF u = "MONTHLY" THEN Value([amount |-> bar_size, unit |-> "Month"])
        ELSE ValueError("Unsupported unit")

\* get_timeframe.
get_timeframe(unit, bar_size) ==
    LET u == Upper(unit)
    IN  IF u = "MINUTE"
        THEN IF bar_size <= 59
             THEN Value([amount |-> bar_size, unit |-> "Minute"])
             ELSE Value([amount |-> bar_size \div 60, unit |-> "Hour"])
        ELSE IF u = "HOUR" THEN Value([amount |-> bar_size, unit |-> "Hour"])
        ELSE IF u = "DAILY" THEN Value([amount |-> bar_size, unit |-> "Day"])
        ELSE IF u = "WEEKLY" THEN Value([amount |-> bar_size, unit |-> "Week"])
        ELSE IF u = "MONTHLY" THEN Value([amount |-> bar_size, unit |-> "Month"])
        ELSE ValueError("Unsupported unit")

\* default_bars_back.
default_bars_back(unit, bar_size) ==
    LET u == Upper(unit)
    IN  IF u = "MINUTE" /\ bar_size < 5 THEN Value(120 \div bar_size)
        ELSE IF u = "MINUTE" /\ bar_size < 15 THEN Value((60 * 7) \div bar_size)
        ELSE IF u = "MINUTE" /\ bar_size < 30 THEN Value((60 * 13) \div bar_size)
        ELSE IF u = "HOUR" THEN Value((5 * 24) \div bar_size)
        ELSE IF u = "DAILY" THEN Value(30 \div bar_size)
        ELSE IF u = "WEEKLY" THEN Value(26 \div bar_size)
        ELSE IF u = "MONTHLY" THEN Value(12 \div bar_size)
        ELSE ValueError("Unknown unit")

\* bars_back_to_datetime, as the offset it subtracts from now: how many
\* steps of which calendar interval. The unit is compared as given.
bars_back_to_datetime(unit, bar_size, bars_back) ==
    IF unit = "Minute"
    THEN Value([interval |-> "BusinessHour", n |-> 1,
                steps |-> (((bars_back * bar_size) \div 60) + 1) + 10])
    ELSE IF unit = "Hour"
    THEN Value([interval |-> "BusinessHour", n |-> bar_size, steps |-> bars_back + 10])
    ELSE IF unit = "Daily"
    THEN Value([interval |-> "BDay", n |-> bar_size, steps |-> bars_back + 10])
    ELSE IF unit = "Weekly"
    THEN Value([interval |-> "BDay", n |-> 5 * bar_size, steps |-> bars_back + 10])
    ELSE IF unit = "Monthly"
    THEN Value([interval |-> "BDay", n |-> 21 * bar_size, steps |-> bars_back + 10])
    ELSE ValueError("Unknown unit")

\* max(indicator_min_bars_back(i) for i in indicators.split(",")).
MaxOf(seq) ==
    CHOOSE m \in {seq[i] : i \in DOMAIN seq} : \A i \in DOMAIN seq : seq[i] <= m

\* A filter test that looks at the unit alone.
SessionOnly_by_unit(b) == Upper(b.unit) \in {"MINUTE", "HOUR"}

\* The outside-hours filter applies: not include_outside_hours and the
\* unit is MINUTE or HOUR.
SessionOnly(b) ==
    ~b.include_outside_hours /\ Upper(b.unit) \in {"MINUTE", "HOUR"}

\* The row test with the opening and closing bars left out.
InSession_open_interval(row) ==
    /\ row.dayofweek < 5
    /\ \/ row.hour = 9 /\ row.minute > 30
       \/ row.hour > 9 /\ row.hour < 16

\* The row test of the outside-hours filter.
InSession(row) ==
    /\ row.dayofweek < 5
    /\ \/ row.hour = 9 /\ row.minute >= 30
       \/ row.hour > 9 /\ row.hour < 16
       \/ row.hour = 16 /\ row.minute = 0

\* bars_df.iloc[-n:]: the trailing n rows (all rows when n is 0).
ILocTail(df, n) ==
    IF n = 0 \/ n >= Len(df) THEN df ELSE SubSeq(df, Len(df) - n + 1, Len(df))

\* Timestamps inside and outside the regular session.
SessionTimes ==
    << [dayofweek |-> 0, hour |-> 9, minute |-> 30],
       [dayofweek |-> 2, hour |-> 12, minute |-> 0],
       [dayofweek |-> 4, hour |-> 16, minute |-> 0],
       [dayofweek |-> 3, hour |-> 15, minute |-> 59],
       [dayofweek |-> 1, hour |-> 10, minute |-> 0] >>

EarlyTimes ==
    << [dayofweek |-> 0, hour |-> 9, minute |-> 29],
       [dayofweek |-> 5, hour |-> 12, minute |-> 0],
       [dayofweek |-> 2, hour |-> 9, minute |-> 0] >>

LateTimes ==
    << [dayofweek |-> 4, hour |-> 16, minute |-> 1],
       [dayofweek |-> 6, hour |-> 9, minute |-> 30],
       [dayofweek |-> 1, hour |-> 16, minute |-> 30] >>

Cycle(times, i) == times[((i - 1) % Len(times)) + 1]

Row(i, time) ==
    [i |-> i, dayofweek |-> time.dayofweek, hour |-> time.hour, minute |-> time.minute]

\* What get_stock_bars can return: early rows, then session rows, then
\* late rows, however wide the window asked for.
Frame(early, session, late) ==
    [i \in 1 .. (early + session + late) |->
        IF i <= early THEN Row(i, Cycle(EarlyTimes, i))
        ELSE IF i <= early + session THEN Row(i, Cycle(SessionTimes, i - early))
        ELSE Row(i, Cycle(LateTimes, i - early - session))]

Frames ==
    {Frame(early, session, late) :
        early \in 0 .. MaxOutside, session \in 0 .. MaxRows, late \in 0 .. MaxOutside}

\* A call of get_alpaca_bars with its arguments, before its first line.
\* requested is the bars_back of the outermost call.
BarsCall(unit, bars_back, bar_size, indicators, truncate_bars, include_outside_hours, requested, retries, fetches) ==
    [pc |-> "call", unit |-> unit, arg_bars_back |-> bars_back, bar_size |-> bar_size,
     indicators |-> indicators, truncate_bars |-> truncate_bars,
     include_outside_hours |-> include_outside_hours,
     requested |-> requested, retries |-> retries, fetches |-> fetches,
     timeframe |-> None, original_bars_back |-> 0, bars_back |-> 0,
     adjusted_bars_back |-> 0, start |-> None,
     fetched |-> << >>, bars_df |-> << >>, returned |-> << >>,
     warning |-> FALSE, error |-> ""]

BarsInit ==
    /\ orders = << >>
    /\ clock = 0
    /\ result = Raised("", "", 0)
    /\ history = << >>
    /\ tasks = NoTasks
    /\ \E unit \in Units, bars_back \in BarsBack, bar_size \in BarSizes,
          indicators \in Indicators, truncate_bars \in BOOLEAN,
          include_outside_hours \in BOOLEAN :
         bars = BarsCall(unit, bars_back, bar_size, indicators, truncate_bars,
                         include_outside_hours, bars_back, 0, 0)

\* bars_back after the indicators' warm-up is added.
WarmedBarsBack(b, original_bars_back) ==
    IF b.indicators # << >>
    THEN MaxOf(b.indicators) + b.arg_bars_back
    ELSE original_bars_back

\* adjusted_bars_back: int(bars_back * 3.7) for minute bars, bars_back * 4
\* for hour bars, when the outside-hours filter applies.
AdjustedBarsBack(b, bars_back) ==
    IF SessionOnly(b)
    THEN IF Upper(b.unit) = "MINUTE" THEN (bars_back * 37) \div 10 ELSE bars_back * 4
    ELSE bars_back

\* get_alpaca_bars from its first line to the request it builds; the
\* ValueError of a helper ends the call where it is raised.
PrepareRequest ==
    /\ bars.pc = "call"
    /\ LET timeframe == get_timeframe(bars.unit, bars.bar_size)
           default == IF bars.arg_bars_back # 0 THEN Value(bars.arg_bars_back)
                      ELSE default_bars_back(bars.unit, bars.bar_size)
           original_bars_back == default.value
           bars_back == WarmedBarsBack(bars, original_bars_back)
           adjusted_bars_back == AdjustedBarsBack(bars, bars_back)
           start == bars_back_to_datetime(bars.unit, bars.bar_size, adjusted_bars_back)
       IN  IF timeframe.error # ""
           THEN bars' = [bars EXCEPT !.pc = "raised", !.error = timeframe.error]
           ELSE IF default.error # ""
           THEN bars' = [bars EXCEPT !.pc = "raised", !.error = default.error,
                                     !.timeframe = Some(timeframe.value)]
           ELSE IF start.error # ""
           THEN bars' = [bars EXCEPT !.pc = "raised", !.error = start.error,
                                     !.timeframe = Some(timeframe.value),
                                     !.original_bars_back = original_bars_back,
                                     !.bars_back = bars_back,
                                     !.adjusted_bars_back = adjusted_bars_back]
           ELSE bars' = [bars EXCEPT !.pc = "fetch",
                                     !.timeframe = Some(timeframe.value),
                                     !.original_bars_back = original_bars_back,
                                     !.bars_back = bars_back,
                                     !.adjusted_bars_back = adjusted_bars_back,
                                     !.start = Some(start.value)]
    /\ UNCHANGED <<orders, clock, result, history, tasks>>

\* The outside-hours filter over a frame.
FilterSession(b, df) == IF SessionOnly(b) THEN SelectSeq(df, InSession) ELSE df

\* await stock_client.get_stock_bars(request), then the filter.
FetchBars ==
    /\ bars.pc = "fetch"
    /\ \E frame \in Frames :
         bars' = [bars EXCEPT !.pc = "check", !.fetched = frame,
                              !.bars_df = FilterSession(bars, frame),
                              !.fetches = @ + 1]
    /\ UNCHANGED <<orders, clock, result, history, tasks>>

\* The filtered frame is shorter than original_bars_back.
UnderFilled(b) == SessionOnly(b) /\ Len(b.bars_df) < b.original_bars_back

\* "If this is the first retry (we used the default multiplier)".
FirstRetry(b) == b.adjusted_bars_back <= b.bars_back * 4

\* The recursive call: bars_back becomes original_bars_back * 10 and the
\* callee's result is returned as it is.
RetryCall ==
    /\ bars.pc = "check"
    /\ UnderFilled(bars) /\ FirstRetry(bars)
    /\ bars.retries < MaxRetries
    /\ bars' = BarsCall(bars.unit, bars.original_bars_back * 10, bars.bar_size,
                        bars.indicators, bars.truncate_bars, bars.include_outside_hours,
                        bars.requested, bars.retries + 1, bars.fetches)
    /\ UNCHANGED <<orders, clock, result, history, tasks>>

\* What truncate_bars keeps of the frame.
Truncate(b) ==
    IF b.truncate_bars
    THEN IF Len(b.bars_df) >= b.original_bars_back
         THEN ILocTail(b.bars_df, b.original_bars_back) ELSE b.bars_df
    ELSE b.bars_df

\* No retry: the warning when the frame is under-filled, the truncation,
\* the return.
ReturnBars ==
    /\ bars.pc = "check"
    /\ ~(UnderFilled(bars) /\ FirstRetry(bars))
    /\ bars' = [bars EXCEPT !.pc = "done", !.warning = UnderFilled(bars),
                            !.returned = Truncate(bars)]
    /\ UNCHANGED <<orders, clock, result, history, tasks>>

BarsNext ==
    \/ PrepareRequest
    \/ FetchBars
    \/ RetryCall
    \/ ReturnBars

BarsSpec == BarsInit /\ [][BarsNext]_allvars

\* ---------------------------------------------------------------- claims
FullCloseOptions == Some([percentage |-> Some("100")])

LastCommitted == history[Len(history)]

\* The columns of a row a replace or a close must not touch.
SameTerms(a, b) ==
    /\ a.id = b.id
    /\ a.instrument = b.instrument
    /\ a.side = b.side
    /\ a.quantity = b.quantity
    /\ a.entry_price = b.entry_price
    /\ a.take_profit_price = b.take_profit_price
    /\ a.stop_loss_price = b.stop_loss_price

\* C1: every change of a stored order's status is NEW/ACCEPTED -> CANCELED
\* made by cancel or replace, or NEW -> FILLED made by close_position; so
\* a FILLED order never changes status again.
C1_OnlyDocumentedTransitions ==
    [][\A id \in DOMAIN orders :
         orders'[id].status # orders[id].status =>
             \/ /\ orders[id].status \in {OrderStatus_NEW, OrderStatus_ACCEPTED}
                /\ orders'[id].status = OrderStatus_CANCELED
                /\ result'.op \in {"cancel_order_by_id", "replace_order_by_id"}
             \/ /\ orders[id].status = OrderStatus_NEW
                /\ orders'[id].status = OrderStatus_FILLED
                /\ result'.op = "close_position"]_vars

\* C2: replace_order_by_id on an order whose status is CANCELED fails
\* with the already-canceled error, adds no row and changes no row.
C2_ReplaceCanceledFails ==
    [][\A order_id \in DOMAIN orders, new_order_data \in ReplaceRequests :
         (/\ orders[order_id].status = OrderStatus_CANCELED
          /\ replace_order_by_id(order_id, new_order_data))
         => (/\ result'.error = "AlreadyCanceled"
             /\ orders' = orders)]_vars

\* A NEW order was canceled and the replace of it that followed was
\* refused.
C2_Witness ==
    /\ result.op = "replace_order_by_id"
    /\ result.error = "AlreadyCanceled"
    /\ history # << >>
    /\ LastCommitted.op = "cancel_order_by_id"
    /\ LastCommitted.id = result.id
    /\ orders[result.id].status = OrderStatus_CANCELED

\* C3: a successful replace_order_by_id on o adds exactly one row, under
\* an id that is not o's and not any existing id, sets o CANCELED and
\* leaves o's id, instrument, side, quantity and prices (and every other
\* row) as they were.
C3_ReplaceAddsRowKeepsOriginal ==
    [][\A o \in DOMAIN orders, new_order_data \in ReplaceRequests :
         (replace_order_by_id(o, new_order_data) /\ result'.error = "")
         => (/\ Cardinality(DOMAIN orders' \ DOMAIN orders) = 1
             /\ DOMAIN orders \subseteq DOMAIN orders'
             /\ result'.id \in DOMAIN orders' \ DOMAIN orders
             /\ result'.id # o
             /\ orders'[result'.id].id = result'.id
             /\ orders'[o].status = OrderStatus_CANCELED
             /\ SameTerms(orders'[o], orders[o])
             /\ \A other \in DOMAIN orders \ {o} : orders'[other] = orders[other])]_vars

\* A replace succeeded with overridden terms: the original is CANCELED
\* and the new row, under another id, carries the new price.
C3_Witness ==
    /\ result.op = "replace_order_by_id"
    /\ result.error = ""
    /\ history # << >>
    /\ LastCommitted.op = "replace_order_by_id"
    /\ LastCommitted.new_id = result.id
    /\ LastCommitted.id # result.id
    /\ orders[LastCommitted.id].status = OrderStatus_CANCELED
    /\ orders[result.id].entry_price # orders[LastCommitted.id].entry_price

\* C4: one submitted order o, replaced to give r1, r1 replaced to give r2:
\* exactly the three rows o, r1, r2 exist, o and r1 CANCELED, r2 NEW, and
\* r2's id is neither o's nor r1's.
C4_ReplaceTwice ==
    \A o \in Uuids, r1 \in Uuids, r2 \in Uuids :
        history = << Committed("submit_order", o, o),
                     Committed("replace_order_by_id", o, r1),
                     Committed("replace_order_by_id", r1, r2) >>
        => /\ DOMAIN orders = {o, r1, r2}
           /\ Cardinality(DOMAIN orders) = 3
           /\ orders[o].status = OrderStatus_CANCELED
           /\ orders[r1].status = OrderStatus_CANCELED
           /\ orders[r2].status = OrderStatus_NEW
           /\ r2 # o /\ r2 # r1

\* The table holds the outcome of submit, replace, replace of the
\* replacement, and nothing else was committed.
C4_Witness ==
    /\ Len(history) = 3
    /\ history[1].op = "submit_order"
    /\ history[2].op = "replace_order_by_id"
    /\ history[2].id = history[1].id
    /\ history[3].op = "replace_order_by_id"
    /\ history[3].id = history[2].new_id
    /\ result.op = "replace_order_by_id"
    /\ result.id = history[3].new_id

\* C5: close_position(symbol, "100") sets FILLED every NEW order of the
\* symbol, leaves every CANCELED or FILLED order and every order of
\* another instrument as it was, and adds and removes no rows.
C5_FullCloseFrame ==
    [][\A symbol \in Symbols :
         close_position(symbol, FullCloseOptions)
         => (/\ result'.error = ""
             /\ DOMAIN orders' = DOMAIN orders
             /\ \A id \in DOMAIN orders :
                  IF orders[id].status = OrderStatus_NEW /\ orders[id].instrument = symbol
                  THEN /\ orders'[id].status = OrderStatus_FILLED
                       /\ SameTerms(orders'[id], orders[id])
                  ELSE orders'[id] = orders[id])]_vars

\* A full close just filled an order while a CANCELED order of the same
\* instrument stayed CANCELED.
C5_Witness ==
    /\ result.op = "close_position"
    /\ result.error = ""
    /\ \E filled \in DOMAIN orders, kept \in DOMAIN orders :
         /\ orders[filled].status = OrderStatus_FILLED
         /\ orders[filled].updated_timestamp = clock - 1
         /\ orders[kept].status = OrderStatus_CANCELED
         /\ orders[kept].instrument = orders[filled].instrument

\* C6: close_position with no percentage, or one that is not exactly
\* "100", fails and leaves the table as it was, matching orders or not.
C6_PartialCloseFails ==
    [][\A symbol \in Symbols, close_options \in CloseOptions \ {FullCloseOptions} :
         close_position(symbol, close_options)
         => (result'.error # "" /\ orders' = orders)]_vars

\* A close was refused for its percentage while a NEW order was there to
\* fill.
C6_Witness ==
    /\ result.op = "close_position"
    /\ result.error = "PartialClose"
    /\ \E id \in DOMAIN orders : orders[id].status = OrderStatus_NEW

\* C7: submit_order stores a row whose entry_price is the limit price of
\* a LIMIT request that gives one, and null for every other order type.
C7_EntryPricePersisted ==
    [][\A order_data \in SubmitRequests :
         submit_order(order_data)
         => \E id \in DOMAIN orders' \ DOMAIN orders :
               orders'[id].entry_price =
                   IF order_data.type = "limit" /\ order_data.limit_price # None
                   THEN order_data.limit_price ELSE None]_vars

\* C8: submit_order never fails: it adds exactly one row, NEW, under a
\* fresh id, and returns that status and id.
C8_SubmitUnconditional ==
    [][\A order_data \in SubmitRequests :
         submit_order(order_data)
         => (/\ result'.error = ""
             /\ Cardinality(DOMAIN orders' \ DOMAIN orders) = 1
             /\ DOMAIN orders \subseteq DOMAIN orders'
             /\ result'.id \in DOMAIN orders' \ DOMAIN orders
             /\ orders'[result'.id].status = OrderStatus_NEW
             /\ result'.status = OrderStatus_NEW)]_vars

\* C9: a call that fails leaves the table equal to the table before it;
\* a replace whose new row is refused does not leave the original
\* CANCELED.
C9_FailureChangesNothing ==
    [][result'.error # "" => orders' = orders]_vars

\* A replace was refused at the commit of its new row, and the order it
\* named is still NEW.
C9_Witness ==
    /\ result.op = "replace_order_by_id"
    /\ result.error = "IntegrityError"
    /\ orders[result.id].status = OrderStatus_NEW

\* C10: get, cancel and replace by an id the table lacks fail with the
\* not-found error and change nothing; get by an id the table has
\* returns that row's status and id and changes nothing.
C10_LookupById ==
    [][/\ \A order_id \in Uuids \ DOMAIN orders :
            (\/ get_order_by_id(order_id)
             \/ cancel_order_by_id(order_id)
             \/ \E new_order_data \in ReplaceRequests :
                   replace_order_by_id(order_id, new_order_data))
            => (result'.error = "NotFound" /\ orders' = orders)
       /\ \A order_id \in DOMAIN orders :
            get_order_by_id(order_id)
            => (/\ result'.error = ""
                /\ result'.id = order_id
                /\ result'.status = orders[order_id].status
                /\ orders' = orders)]_vars

\* A cancel named an id the table lacks, with NEW rows in it, and was
\* refused.
C10_Witness ==
    /\ result.op = "cancel_order_by_id"
    /\ result.error = "NotFound"
    /\ result.id \notin DOMAIN orders
    /\ \E id \in DOMAIN orders : orders[id].status = OrderStatus_NEW

\* C11: cancel_order_by_id on an existing order succeeds whatever its
\* status; on a CANCELED order it succeeds too, the status stays CANCELED
\* and only updated_timestamp may change, while replace_order_by_id on
\* that order fails.
C11_CancelHasNoGuard ==
    [][\A order_id \in DOMAIN orders :
         /\ cancel_order_by_id(order_id)
            => (/\ result'.error = ""
                /\ result'.status = OrderStatus_CANCELED
                /\ orders' = [orders EXCEPT
                       ![order_id].status = OrderStatus_CANCELED,
                       ![order_id].updated_timestamp = orders'[order_id].updated_timestamp])
         /\ \A new_order_data \in ReplaceRequests :
              (/\ orders[order_id].status = OrderStatus_CANCELED
               /\ replace_order_by_id(order_id, new_order_data))
              => result'.error = "AlreadyCanceled"]_vars

\* The same order was canceled twice in a row, and the second cancel
\* returned CANCELED.
C11_Witness ==
    /\ result.op = "cancel_order_by_id"
    /\ result.error = ""
    /\ Len(history) >= 2
    /\ LastCommitted.op = "cancel_order_by_id"
    /\ history[Len(history) - 1].op = "cancel_order_by_id"
    /\ history[Len(history) - 1].id = LastCommitted.id
    /\ orders[LastCommitted.id].status = OrderStatus_CANCELED

\* C12: the rows of the table have pairwise distinct ids, no call changes
\* the id of a row, and no call removes a row.
C12_IdsUniqueAndKept ==
    [][/\ \A a \in DOMAIN orders', b \in DOMAIN orders' :
            a # b => orders'[a].id # orders'[b].id
       /\ DOMAIN orders \subseteq DOMAIN orders'
       /\ \A id \in DOMAIN orders : orders'[id].id = orders[id].id]_vars

\* The table holds a replaced (CANCELED) order next to a FILLED one.
C12_Witness ==
    /\ Cardinality(DOMAIN orders) >= 2
    /\ \E a \in DOMAIN orders, b \in DOMAIN orders :
         /\ orders[a].status = OrderStatus_CANCELED
         /\ orders[b].status = OrderStatus_FILLED
    /\ \E i \in 1 .. Len(history) : history[i].op = "replace_order_by_id"

\* C19: the row a replace creates has the original's instrument, side,
\* order type and order class; the request's quantity, time in force and
\* limit price where given, else the original's; the original's take
\* profit; and for stop loss the request's stop price, never the
\* original's. The response carries the new row's status, id, qty,
\* limit_price and stop_price.
C19_ReplacementTerms ==
    [][\A o \in DOMAIN orders, new_order_data \in ReplaceRequests :
         (replace_order_by_id(o, new_order_data) /\ result'.error = "")
         => LET old == orders[o]
                new == orders'[result'.id]
            IN  /\ new.instrument = old.instrument
                /\ new.side = old.side
                /\ new.order_type = old.order_type
                /\ new.order_class = old.order_class
                /\ new.quantity = IF new_order_data.qty # None
                                  THEN Val(new_order_data.qty) ELSE old.quantity
                /\ new.time_in_force = IF new_order_data.time_in_force # None
                                       THEN Val(new_order_data.time_in_force)
                                       ELSE old.time_in_force
                /\ new.entry_price = IF new_order_data.limit_price # None
                                     THEN new_order_data.limit_price ELSE old.entry_price
                /\ new.take_profit_price = old.take_profit_price
                /\ new.stop_loss_price = new_order_data.stop_price
                /\ result'.status = new.status
                /\ result'.id = new.id
                /\ result'.qty = Some(new.quantity)
                /\ result'.limit_price = new.entry_price
                /\ result'.stop_price = new.stop_loss_price]_vars

\* An order with take profit and stop loss was replaced by a request that
\* names no stop price: the new row kept the take profit and has no stop
\* loss.
C19_Witness ==
    /\ result.op = "replace_order_by_id"
    /\ result.error = ""
    /\ LastCommitted.new_id = result.id
    /\ orders[LastCommitted.id].stop_loss_price # None
    /\ orders[LastCommitted.id].take_profit_price # None
    /\ orders[result.id].take_profit_price = orders[LastCommitted.id].take_profit_price
    /\ orders[result.id].stop_loss_price = None
    /\ result.stop_price = None

\* The new row of this replace request passes the table's constraints.
Acceptable(new_order_data) == new_order_data.limit_price # Some(0)

\* Both coroutines read the same order before either committed: each
\* holds a snapshot of it that is not CANCELED.
BothReadFirst ==
    /\ tasks[1].order_id = tasks[2].order_id
    /\ \A t \in Tasks :
         /\ tasks[t].existing # None
         /\ Val(tasks[t].existing).status # OrderStatus_CANCELED
         /\ Acceptable(tasks[t].new_order_data)

\* C20: two replace_order_by_id calls on one non-canceled order that both
\* read it before either commits both pass the already-canceled test and
\* both succeed: the original is CANCELED once and there are two separate
\* NEW replacement rows.
C20_ConcurrentReplacesBothSucceed ==
    (BothReadFirst /\ \A t \in Tasks : tasks[t].pc = "done")
    => /\ \A t \in Tasks : tasks[t].result.error = ""
       /\ tasks[1].result.id # tasks[2].result.id
       /\ orders[tasks[1].order_id].status = OrderStatus_CANCELED
       /\ DOMAIN orders = {tasks[1].order_id, tasks[1].result.id, tasks[2].result.id}
       /\ \A t \in Tasks : orders[tasks[t].result.id].status = OrderStatus_NEW

\* Both coroutines returned after reading the same NEW order first.
C20_Witness ==
    /\ BothReadFirst
    /\ \A t \in Tasks : tasks[t].pc = "done" /\ tasks[t].result.error = ""
    /\ Cardinality(DOMAIN orders) = 3

\* The units the bar tools document, and those of them the outside-hours
\* filter is for (in the spellings the inputs use).
SupportedUnits == {"Minute", "Hour", "Daily", "Weekly", "Monthly"}

IntradayUnits == {"Minute", "Hour", "HOUR"}

\* Minutes since midnight of a row's timestamp.
MinuteOfDay(row) == (row.hour * 60) + row.minute

\* A row lies in the regular session: Monday to Friday, 09:30 to 16:00.
RegularSession(row) ==
    /\ row.dayofweek \in 0 .. 4
    /\ MinuteOfDay(row) >= (9 * 60) + 30
    /\ MinuteOfDay(row) <= 16 * 60

\* The regular-session-only case of a call.
Filtering == ~bars.include_outside_hours /\ bars.unit \in IntradayUnits

\* C13: with include_outside_hours false and unit Minute or Hour, an
\* under-filled result leads to exactly one retry, whose bars_back is 10
\* times the count the first call looked for; a retry that is still
\* under-filled is not retried.
C13_ExactlyOneRetry ==
    /\ bars.retries <= 1
    /\ bars.retries = 1 /\ bars.requested # 0 => bars.arg_bars_back = 10 * bars.requested

\* C14: with truncate_bars the call returns exactly the trailing bars_back
\* rows of the caller's request when that many are there and never more
\* than bars_back rows, after a warm-up and after a retry too; without
\* truncate_bars it returns every filtered row. (Stated for a caller's
\* bars_back of at least 1.)
C14_TruncatesToRequest ==
    bars.pc = "done" /\ bars.requested >= 1 =>
        IF bars.truncate_bars
        THEN /\ Len(bars.returned) <= bars.requested
             /\ Len(bars.bars_df) >= bars.requested =>
                    bars.returned = SubSeq(bars.bars_df,
                                           Len(bars.bars_df) - bars.requested + 1,
                                           Len(bars.bars_df))
        ELSE bars.returned = bars.bars_df

C16_Timeframe ==
    bars.pc # "call" =>
        /\ bars.unit = "Minute" /\ bars.bar_size <= 59 =>
              bars.timeframe = Some([amount |-> bars.bar_size, unit |-> "Minute"])
        /\ bars.unit = "Minute" /\ bars.bar_size > 59 =>
              bars.timeframe = Some([amount |-> bars.bar_size \div 60, unit |-> "Hour"])
        /\ (bars.unit = "Minute" /\ bars.bar_size = 90)
              \/ (bars.unit \in {"Hour", "HOUR"} /\ bars.bar_size = 1) =>
              bars.timeframe = Some([amount |-> 1, unit |-> "Hour"])
        /\ bars.unit \in {"Hour", "HOUR"} =>
              bars.timeframe = Some([amount |-> bars.bar_size, unit |-> "Hour"])
        /\ bars.unit = "Daily" =>
              bars.timeframe = Some([amount |-> bars.bar_size, unit |-> "Day"])
        /\ bars.unit = "Weekly" =>
              bars.timeframe = Some([amount |-> bars.bar_size, unit |-> "Week"])
        /\ bars.unit = "Monthly" =>
              bars.timeframe = Some([amount |-> bars.bar_size, unit |-> "Month"])
        /\ bars.unit \notin (SupportedUnits \cup {"HOUR"}) =>
              bars.pc = "raised" /\ bars.error = "Unsupported unit"
                                /\ bars.timeframe = None

\* A 90-minute request fetched as 1-hour bars.
C16_Witness ==
    /\ bars.pc = "done" /\ bars.unit = "Minute" /\ bars.bar_size = 90
    /\ bars.timeframe = Some([amount |-> 1, unit |-> "Hour"])

\* C17: for every supported unit and every bar_size of at least 1, a
\* request with bars_back 0 resolves without error to a default count of
\* at least 1.
C17_DefaultDefined ==
    bars.pc # "call" /\ bars.unit \in SupportedUnits /\ bars.arg_bars_back = 0 =>
        bars.pc # "raised" /\ bars.original_bars_back >= 1

\* C18: when a retry's result is under-filled again, the call returns the
\* rows it has with a warning; it neither fails nor retries once more.
C18_ReturnsAfterRetry ==
    [][bars.pc = "check" /\ bars.retries >= 1 /\ Filtering
         /\ Len(bars.bars_df) < bars.original_bars_back =>
            bars'.pc = "done" /\ bars'.warning /\ bars'.returned = bars.bars_df]_allvars

\* C21: with indicators, the count that sizes the fetch window (before the
\* outside-hours inflation) is the largest warm-up of the indicators plus
\* the requested bars_back, a bars_back of 0 counting as the unit's
\* default. (Stated for the caller's call, where original_bars_back is
\* that effective count.)
C21_WindowIsWarmupPlusRequest ==
    bars.pc \in {"fetch", "check", "done"} /\ bars.indicators # << >> /\ bars.retries = 0 =>
        \E i \in DOMAIN bars.indicators :
            /\ \A j \in DOMAIN bars.indicators : bars.indicators[j] <= bars.indicators[i]
            /\ bars.bars_back = bars.indicators[i] + bars.original_bars_back

\* C22: an order that is CANCELED is still there and still CANCELED after
\* any call of the client.
C22_CanceledIsAbsorbing ==
    [][\A id \in DOMAIN orders :
         orders[id].status = OrderStatus_CANCELED
         => id \in DOMAIN orders' /\ orders'[id].status = OrderStatus_CANCELED]_vars

\* An order was canceled, and a later full close filled another order of
\* its instrument and left it CANCELED.
C22_Witness ==
    /\ Len(history) >= 3
    /\ LastCommitted.op = "close_position"
    /\ \E n \in 1 .. (Len(history) - 1), filled \in DOMAIN orders :
         /\ history[n].op = "cancel_order_by_id"
         /\ history[n].id \in DOMAIN orders
         /\ orders[history[n].id].status = OrderStatus_CANCELED
         /\ orders[history[n].id].updated_timestamp < clock - 1
         /\ orders[filled].instrument = orders[history[n].id].instrument
         /\ orders[filled].status = OrderStatus_FILLED
         /\ orders[filled].updated_timestamp = clock - 1

\* C23: with include_outside_hours, or with unit Daily, Weekly or
\* Monthly, a call fetches once and never retries, however few rows come
\* back.
C23_NoRetryOutsideFilter ==
    bars.pc # "idle" /\ (bars.include_outside_hours \/ bars.unit \in {"Daily", "Weekly", "Monthly"}) =>
        /\ bars.retries = 0
        /\ bars.fetches <= 1
        /\ bars.pc \in {"check", "done"} => bars.fetches = 1
        /\ bars.pc = "check" => ENABLED ReturnBars

\* A minute request with outside hours included returned fewer rows than
\* it asked for after its one fetch.
C23_Witness ==
    /\ bars.pc = "done" /\ bars.include_outside_hours /\ bars.unit = "Minute"
    /\ bars.requested >= 1 /\ Len(bars.returned) < bars.requested
    /\ bars.fetches = 1 /\ bars.retries = 0

====
